---- MODULE Spec2Model ----
(***************************************************************************)
(* Model of the G3ND demo shell (package app) and of the demos that        *)
(* register themselves in demos.Map.                                       *)
(*                                                                         *)
(* Strings that the code splits are sequences of tokens: a token is either *)
(* a separator (",", ":", ".") or a word that holds no separator.  Paths   *)
(* are sequences of path components.                                       *)
(***************************************************************************)
EXTENDS Integers, Sequences, FiniteSets, TLC

VARIABLES
    pc,          \* position of the process: which part of main/Create runs next
    demoMap,     \* demos.Map: name -> demo object (Nil: no such key)
    regLog,      \* history: the registrations made so far, in order
    oLogs,       \* value of the -logs flag
    li,          \* loop index i of the -logs loop in Create
    levels,      \* level of each engine package logger
    applog,      \* history: entries written to the application log
    cwd,         \* current directory of the process
    cwdOk,       \* whether the current directory can be determined (filepath.Abs)
    execPath,    \* result of osext.Executable(), <<>> when it fails
    goPathEnv,   \* value of the GOPATH environment variable
    fs,          \* the paths that exist in the file system
    statted,     \* history: the paths checkDirData handed to os.Stat, in order
    dirData,     \* app.dirData
    oNogui,      \* -nogui
    oHideFPS,    \* -hidefps
    oUpdateFPS,  \* -updatefps, in milliseconds
    args,        \* flag.Args(): the positional command-line arguments
    currentDemo, \* app.currentDemo (Nil: none)
    test,        \* the demo the selection in progress (or the last one) picked
    finalizers,  \* app.finalizers: the registered finalizers, by their ids
    nextFin,     \* history: the id the next registered finalizer gets
    invoked,     \* history: the finalizers invoked so far, in order
    winSubs,     \* subscriptions on the window, in subscription order
    panelSubs,   \* subscriptions on the GUI panels "root" and "center"
    children,    \* children of the scene root, the GUI panels and the cameras
    camera,      \* app.Camera(): "persp" or "ortho"
    panel3D,     \* app.Panel3D() (Nil: none)
    control,     \* whether app.control is set
    controlItems,\* the controls of the control folder
    layout,      \* who set the layout of each GUI panel (Nil: nobody)
    treeTests,   \* app.treeTests: <<>> when there is no tree, else <<its entries>>
    labelFPS,    \* text of the header FPS label (<<>>: there is no label)
    winTitle,    \* title of the window
    appSubs,     \* subscriptions on the application, in subscription order
    now,         \* wall-clock time, in milliseconds
    lastUpdate,  \* the frame rater's time of its last FPS calculation
    lastWrite,   \* history: time of the last write of the FPS text (-1: none)
    event,       \* history: the render event the last step dispatched, or "none"
    rendered,    \* history: the Render calls the last step made, in order
    exitCode,    \* exit code of the process (-1: it has not exited)
    dropped,     \* history: the window subscriptions the last step's reset cleared
    initialized  \* history: the demo objects whose Initialize has completed

regVars == <<demoMap, regLog>>
logVars == <<oLogs, li, levels, applog>>
dirVars == <<cwd, cwdOk, execPath, goPathEnv, fs, statted, dirData>>
flagVars == <<oNogui, oHideFPS, oUpdateFPS, args>>
finVars == <<finalizers, nextFin, invoked>>
sceneVars == <<winSubs, panelSubs, children, camera, controlItems>>
guiVars == <<panel3D, control, layout, treeTests>>
fpsVars == <<labelFPS, winTitle, lastUpdate, lastWrite>>
appVars == <<flagVars, currentDemo, test, finVars, sceneVars, guiVars, fpsVars,
             appSubs, now, event, rendered, exitCode, dropped, initialized>>
vars == <<pc, regVars, logVars, dirVars, appVars>>

Nil == "nil"

\* Bounds of the model
MaxRegs == 3
MaxLogsLen == 7
MaxEnvLen == 2

SeqsUpTo(S, n) == UNION {[1..k -> S] : k \in 0..n}

(***************************************************************************)
(* strings.Split(s, sep) for a one-token separator: the parts of s between *)
(* the separators; a string with n separators has n+1 parts, and the empty *)
(* string has the one part "".                                             *)
(***************************************************************************)
RECURSIVE Split(_, _)
Split(s, sep) ==
    IF \A k \in 1..Len(s) : s[k] # sep
    THEN <<s>>
    ELSE LET k == CHOOSE j \in 1..Len(s) :
                      s[j] = sep /\ \A h \in 1..(j - 1) : s[h] # sep
         IN  <<SubSeq(s, 1, k - 1)>> \o Split(SubSeq(s, k + 1, Len(s)), sep)

(***************************************************************************)
(* The demo registry                                                       *)
(***************************************************************************)
\* the demo objects: the two demos of the source and one more demo of the
\* demo family, which uses every accessor the shell offers to a demo
DemoObjs == {"AudioPosition", "GuiLayoutDock", "AnyDemo"}

DemoNames == {<<"audio", ".", "position">>, <<"gui", ".", "layout_dock">>,
              <<"other", ".", "any">>}

EmptyMap == [n \in DemoNames |-> Nil]

RegisterIfAbsent(m, name, demo) ==
    IF m[name] = Nil THEN [m EXCEPT ![name] = demo] ELSE m

\* demos.Map[name] = demo
Register(m, name, demo) == [m EXCEPT ![name] = demo]

\* an init function of a demo package runs
RegisterDemo(name, demo) ==
    /\ pc = "init"
    /\ Len(regLog) < MaxRegs
    /\ demoMap' = Register(demoMap, name, demo)
    /\ regLog' = Append(regLog, <<name, demo>>)
    /\ UNCHANGED <<pc, logVars, dirVars, appVars>>

(***************************************************************************)
(* Create, lines 89-112: the -logs flag                                    *)
(***************************************************************************)
LogTokens == {"gui", "debug", "zz", ":", ","}

\* strings.ToUpper on a word
UpperWord(w) ==
    CASE w = "gui" -> "GUI"
      [] w = "debug" -> "DEBUG"
      [] w = "zz" -> "ZZ"
      [] OTHER -> w

ToUpper(s) == [k \in 1..Len(s) |-> UpperWord(s[k])]

\* the engine package loggers that logger.Find can find
LoggerPaths == {<<"G3N/", "GUI">>}

\* the level names that Logger.SetLevelByName accepts
LevelNames == {<<"DEBUG">>}

LogsList == Split(oLogs, ",")

\* lines 106-110: what is logged after packlog.SetLevelByName(level)
ReportLevel(i, pack, level, err) ==
    (IF err THEN <<<<i, "Error", "Invalid log level name", level>>>> ELSE <<>>)
        \o <<<<i, "Info", "Set log level", level, pack>>>>

\* one iteration of the loop over the entries of -logs
ApplyLogEntry ==
    /\ pc = "logs"
    /\ oLogs # <<>>
    /\ li < Len(LogsList)
    /\ LET parts == Split(LogsList[li + 1], ":")
           pack == ToUpper(parts[1])
           level == ToUpper(parts[2])
           path == <<"G3N/">> \o pack
           err == level \notin LevelNames
       IN  IF Len(parts) # 2
           THEN /\ applog' = Append(applog, <<li + 1, "Error", "Invalid logs level string">>)
                /\ levels' = levels
           ELSE IF path \notin LoggerPaths
           THEN /\ applog' = Append(applog, <<li + 1, "Error", "No logger for package", pack>>)
                /\ levels' = levels
           ELSE /\ levels' = IF err THEN levels ELSE [levels EXCEPT ![path] = level]
                /\ applog' = applog \o ReportLevel(li + 1, pack, level, err)
    /\ li' = li + 1
    /\ UNCHANGED <<pc, oLogs, regVars, dirVars, appVars>>

\* the loop is over, or -logs is empty: Create goes on to the data directory
LogsDone ==
    /\ pc = "logs"
    /\ oLogs = <<>> \/ li >= Len(LogsList)
    /\ pc' = "dirdata"
    /\ UNCHANGED <<regVars, logVars, dirVars, appVars>>

(***************************************************************************)
(* checkDirData                                                            *)
(***************************************************************************)
AbsRoots == {"/w", "/g", "/h"}

IsAbs(p) == Len(p) > 0 /\ p[1] \in AbsRoots

\* the path os.Stat looks at: a relative path is relative to the current directory
Resolve(p) == IF IsAbs(p) THEN p ELSE cwd \o p

\* os.Stat(p) returns no error
Exists(p) == Resolve(p) \in fs

\* filepath.Dir
Dir(p) == SubSeq(p, 1, Len(p) - 1)

\* filepath.Join(j, "src", "github.com", "g3n", "g3nd", dirDataName)
WorkspaceData(j, dirDataName) == j \o <<"src", "github.com", "g3n", "g3nd">> \o dirDataName

\* lines 552-561: the scan of the GOPATH directories, from entry k on
RECURSIVE ScanGoPath(_, _, _, _)
ScanGoPath(paths, k, dirDataName, probes) ==
    IF k > Len(paths)
    THEN [outcome |-> "fatal", path |-> <<>>, probes |-> probes]
    ELSE LET path == WorkspaceData(paths[k], dirDataName)
         IN  IF Exists(path)
             THEN [outcome |-> "ok", path |-> path, probes |-> Append(probes, path)]
             ELSE ScanGoPath(paths, k + 1, dirDataName, Append(probes, path))

NoGoPathScan(probes, dirDataName) ==
    [outcome |-> "fatal", path |-> <<>>, probes |-> probes]

\* lines 552-565
GoPathScan(probes, dirDataName) ==
    ScanGoPath(Split(goPathEnv, ":"), 1, dirDataName, probes)

\* checkDirData(dirDataName): what it returns or how it ends, and the paths it probes
checkDirData(dirDataName) ==
    IF Exists(dirDataName)
    THEN IF cwdOk
         THEN [outcome |-> "ok", path |-> cwd \o dirDataName, probes |-> <<dirDataName>>]
         ELSE [outcome |-> "panic", path |-> <<>>, probes |-> <<dirDataName>>]
    ELSE IF execPath = <<>>
    THEN [outcome |-> "panic", path |-> <<>>, probes |-> <<dirDataName>>]
    ELSE LET execDir == Dir(execPath)
             path1 == execDir \o dirDataName
             goPath == Dir(execDir)
             path2 == WorkspaceData(goPath, dirDataName)
         IN  IF Exists(path1)
             THEN [outcome |-> "ok", path |-> path1, probes |-> <<dirDataName, path1>>]
             ELSE IF Exists(path2)
             THEN [outcome |-> "ok", path |-> path2,
                   probes |-> <<dirDataName, path1, path2>>]
             ELSE GoPathScan(<<dirDataName, path1, path2>>, dirDataName)

\* Create, lines 114-116
CheckDirData ==
    /\ pc = "dirdata"
    /\ LET r == checkDirData(<<"data">>)
       IN  /\ statted' = r.probes
           /\ dirData' = r.path
           /\ pc' = IF r.outcome = "ok" THEN "build" ELSE r.outcome
           /\ applog' = IF r.outcome = "ok"
                        THEN Append(applog, <<0, "Info", "Using data directory", r.path>>)
                        ELSE IF r.outcome = "fatal"
                        THEN Append(applog, <<0, "Fatal", "Data directory NOT FOUND">>)
                        ELSE applog
    /\ UNCHANGED <<regVars, oLogs, li, levels, cwd, cwdOk, execPath, goPathEnv, fs, appVars>>

(***************************************************************************)
(* The application shell: App, Create from line 124 on, setupScene,        *)
(* buildGui, updateFPS, and the demos                                      *)
(***************************************************************************)
\* Bounds of the model
MaxFinalizers == 3
MaxTime == 4

\* the values of -updatefps the model runs with
UpdateFPSValues == {0, 2}

Panels == {"root", "center"}
Nodes == {"scene", "root", "center", "persp", "ortho"}

envVars == <<regVars, oLogs, li, levels, dirVars, flagVars>>

\* GuiPanel(): the panel the demos add their GUI elements to
GuiPanel == IF oNogui THEN "root" ELSE panel3D

\* AddFinalizer
AddFinalizer(fins, f) == Append(fins, f)

\* k calls of AddFinalizer, with the ids id, id+1, ...
RECURSIVE AddFinalizers(_, _, _)
AddFinalizers(fins, id, k) ==
    IF k = 0 THEN fins ELSE AddFinalizers(AddFinalizer(fins, id), id + 1, k - 1)

\* how many finalizers a demo may still register in one call
FinChoices(d) ==
    IF d = "AnyDemo" THEN {k \in 0..2 : nextFin + k - 1 <= MaxFinalizers} ELSE {0}

(***************************************************************************)
(* The demos.  What a demo's Initialize creates through the accessors of   *)
(* the application: subscriptions on the window (win) and on the GUI panel *)
(* (psubs), children of the scene (scene), of the GUI panel (panel) and of *)
(* the current camera (cam), controls (ctl), and whether it sets the GUI   *)
(* panel's layout.                                                         *)
(***************************************************************************)
Kinds == {"win", "psubs", "scene", "panel", "cam", "ctl"}

\* AudioPosition.Initialize
AudioPositionInitialize(d) ==
    [win |-> <<>>, psubs |-> {},
     scene |-> {<<d, "axis">>, <<d, "grid">>, <<d, "ps1">>, <<d, "ps2">>,
                <<d, "ps3">>, <<d, "ps4">>, <<d, "ps5">>, <<d, "ps6">>},
     panel |-> {}, cam |-> {<<d, "listener">>},
     ctl |-> {<<d, "Play sources">>}, layout |-> FALSE]

\* GuiLayoutDock.Initialize
GuiLayoutDockInitialize(d) ==
    [win |-> <<>>, psubs |-> {}, scene |-> {},
     panel |-> {<<d, "top1">>, <<d, "top2">>, <<d, "bot1">>, <<d, "bot2">>,
                <<d, "left1">>, <<d, "left2">>, <<d, "right1">>, <<d, "right2">>,
                <<d, "center">>},
     cam |-> {}, ctl |-> {}, layout |-> TRUE]

\* Initialize of a demo that uses the accessors named in uses
AnyDemoInitialize(d, uses) ==
    [win |-> IF "win" \in uses THEN <<<<d, "win">>>> ELSE <<>>,
     psubs |-> IF "psubs" \in uses THEN {<<d, "sub">>} ELSE {},
     scene |-> IF "scene" \in uses THEN {<<d, "node">>} ELSE {},
     panel |-> IF "panel" \in uses THEN {<<d, "panel">>} ELSE {},
     cam |-> IF "cam" \in uses THEN {<<d, "camchild">>} ELSE {},
     ctl |-> IF "ctl" \in uses THEN {<<d, "control">>} ELSE {},
     layout |-> FALSE]

\* the demo uses none of the accessors or all of them
UseChoices(d) == IF d = "AnyDemo" THEN {{}, Kinds} ELSE {{}}

\* test.Initialize(app): dispatch on the demo object
DemoInitialize(d, uses, k) ==
    LET c == CASE d = "AudioPosition" -> AudioPositionInitialize(d)
               [] d = "GuiLayoutDock" -> GuiLayoutDockInitialize(d)
               [] OTHER -> AnyDemoInitialize(d, uses)
    IN  /\ winSubs' = winSubs \o c.win
        /\ panelSubs' = [panelSubs EXCEPT ![GuiPanel] = @ \cup c.psubs]
        /\ children' = [children EXCEPT !["scene"] = @ \cup c.scene,
                                        ![GuiPanel] = @ \cup c.panel,
                                        ![camera] = @ \cup c.cam]
        /\ controlItems' = IF control THEN controlItems \cup c.ctl ELSE controlItems
        /\ layout' = IF c.layout THEN [layout EXCEPT ![GuiPanel] = d] ELSE layout
        /\ finalizers' = AddFinalizers(finalizers, nextFin, k)
        /\ nextFin' = nextFin + k
        /\ initialized' = initialized \cup {d}
        /\ UNCHANGED <<invoked, camera>>

(***************************************************************************)
(* setupScene                                                              *)
(***************************************************************************)
RunNoFinalizers(fins) == <<>>

\* lines 237-239: the finalizers setupScene calls, in the order of the calls
RunFinalizers(fins) == [i \in 1..Len(fins) |-> fins[i]]

KeepFinalizers(fins) == fins

\* line 240: app.finalizers[0:0]
ClearFinalizers(fins) == SubSeq(fins, 1, 0)

WindowKeepSubscriptions(subs) == subs

\* line 244: app.Window().ClearSubscriptions()
WindowClearSubscriptions(subs) == <<>>

\* lines 284-315: the handlers setupScene subscribes to the window: the key and
\* resize handlers, the GUI root, and the new orbit control
WindowResubscribe(subs) ==
    subs \o <<<<"app", "key">>, <<"app", "resize">>, <<"gui", "root">>,
              <<"app", "orbit">>>>

\* line 245: app.GuiPanel().ClearSubscriptions()
PanelClearSubscriptions(ps, panel) == [ps EXCEPT ![panel] = {}]

\* node.DisposeChildren(true): the node loses its children, and so does every
\* child of it
DisposeChildren(ch, n) ==
    [m \in Nodes |-> IF m = n \/ <<"app", m>> \in ch[n] THEN {} ELSE ch[m]]

DisposeSceneOnly(ch) == DisposeChildren(ch, "scene")

\* lines 252-255
DisposeTestChildren(ch) ==
    LET a == DisposeChildren(ch, "scene")
    IN  IF panel3D # Nil THEN DisposeChildren(a, panel3D) ELSE a

\* lines 265 and 282: the ambient light and the camera are added to the scene
AddDefaultChildren(ch) ==
    [ch EXCEPT !["scene"] = @ \cup {<<"app", "ambLight">>, <<"app", "persp">>}]

\* lines 328-349: the control folder is cleared and gets the default controls
ResetControls(items) == {<<"app", "Perspective camera">>, <<"app", "Ambient light:">>}

setupScene ==
    /\ invoked' = invoked \o RunFinalizers(finalizers)
    /\ finalizers' = ClearFinalizers(finalizers)
    /\ dropped' = winSubs
    /\ winSubs' = WindowResubscribe(WindowClearSubscriptions(winSubs))
    /\ panelSubs' = PanelClearSubscriptions(panelSubs, GuiPanel)
    /\ children' = AddDefaultChildren(DisposeTestChildren(children))
    /\ camera' = "persp"
    /\ controlItems' = IF control THEN ResetControls(controlItems) ELSE controlItems
    /\ UNCHANGED nextFin

(***************************************************************************)
(* buildGui                                                                *)
(***************************************************************************)
\* lines 449-478: the entries of the tree: a node per category and a label per
\* demo, which holds the demo as its user data
TreeEntries(m) ==
    LET names == {n \in DOMAIN m : m[n] # Nil}
    IN  {<<"node", Split(n, ".")[1]>> : n \in {x \in names : Len(Split(x, ".")) > 1}}
            \cup {<<"label", n, m[n]>> : n \in names}

\* Create, lines 124-127
BuildGui ==
    /\ pc = "build"
    /\ pc' = "setup"
    /\ IF oNogui
       THEN UNCHANGED <<guiVars, children, labelFPS>>
       ELSE /\ panel3D' = "center"
            /\ control' = TRUE
            /\ layout' = [layout EXCEPT !["root"] = "app"]
            /\ treeTests' = <<TreeEntries(demoMap)>>
            /\ children' = [children EXCEPT !["root"] =
                   @ \cup {<<"app", "center">>, <<"app", "header">>, <<"app", "tree">>}]
            /\ labelFPS' = IF ~oHideFPS THEN <<" ">> ELSE <<>>
    /\ event' = "none"
    /\ rendered' = <<>>
    /\ dropped' = <<>>
    /\ UNCHANGED <<envVars, applog, currentDemo, test, finVars, winSubs, panelSubs,
                   camera, controlItems, winTitle, lastUpdate, lastWrite, appSubs,
                   now, exitCode, initialized>>

\* Create, lines 129-130
CreateSetupScene ==
    /\ pc = "setup"
    /\ pc' = "cmdline"
    /\ setupScene
    /\ event' = "none"
    /\ rendered' = <<>>
    /\ UNCHANGED <<envVars, applog, currentDemo, test, guiVars, fpsVars, appSubs,
                   now, exitCode, initialized>>

(***************************************************************************)
(* Create, lines 132-148: the demo named on the command line               *)
(***************************************************************************)
FindSomeDemo(m, tname) == m[CHOOSE n \in DOMAIN m : m[n] # Nil]

\* the demo of the map whose name is tname, Nil when there is none
FindDemo(m, tname) == IF tname \in DOMAIN m THEN m[tname] ELSE Nil

CommandLineDemo ==
    /\ pc = "cmdline"
    /\ event' = "none"
    /\ rendered' = <<>>
    /\ dropped' = <<>>
    /\ IF Len(args) = 0
       THEN /\ pc' = "subscribe"
            /\ UNCHANGED <<currentDemo, test, applog, exitCode>>
       ELSE LET found == FindDemo(demoMap, args[1])
            IN  IF found # Nil
                THEN /\ currentDemo' = found
                     /\ test' = found
                     /\ pc' = "cmdInit"
                     /\ UNCHANGED <<applog, exitCode>>
                ELSE \* usage(): os.Exit(2)
                     /\ applog' = applog \o <<<<0, "Error", "Invalid demo name">>,
                                              <<0, "Stderr", "usage">>>>
                     /\ exitCode' = 2
                     /\ pc' = "exit"
                     /\ UNCHANGED <<currentDemo, test>>
    /\ UNCHANGED <<envVars, finVars, sceneVars, guiVars, fpsVars, appSubs, now,
                   initialized>>

\* line 139: app.currentDemo.Initialize(app)
CommandLineInitialize ==
    /\ pc = "cmdInit"
    /\ \E uses \in UseChoices(currentDemo), k \in FinChoices(currentDemo) :
           DemoInitialize(currentDemo, uses, k)
    /\ pc' = "subscribe"
    /\ event' = "none"
    /\ rendered' = <<>>
    /\ dropped' = <<>>
    /\ UNCHANGED <<envVars, applog, currentDemo, test, panel3D, control, treeTests,
                   fpsVars, appSubs, now, exitCode>>

\* NewPlayerSphere, lines 135-138: an audio file cannot be opened
InitializeFatal ==
    /\ pc \in {"cmdInit", "treeInit"}
    /\ test = "AudioPosition"
    /\ pc' = "fatal"
    /\ applog' = Append(applog, <<0, "Fatal", "error">>)
    /\ event' = "none"
    /\ rendered' = <<>>
    /\ dropped' = <<>>
    /\ UNCHANGED <<envVars, currentDemo, test, finVars, sceneVars, guiVars, fpsVars,
                   appSubs, now, exitCode, initialized>>

\* Create, lines 150-175
SubscribeRender ==
    /\ pc = "subscribe"
    /\ appSubs' = appSubs \o <<"OnBeforeRender", "OnAfterRender">>
    /\ pc' = "loop"
    /\ event' = "none"
    /\ rendered' = <<>>
    /\ dropped' = <<>>
    /\ UNCHANGED <<envVars, applog, currentDemo, test, finVars, sceneVars, guiVars,
                   fpsVars, now, exitCode, initialized>>

(***************************************************************************)
(* The handlers                                                            *)
(***************************************************************************)
\* app.treeTests.Selected() returns nil
NoSelection == <<"none">>

\* buildGui, lines 479-487: the tree's OnChange handler, up to setupScene
TreeChange(sel) ==
    /\ pc = "loop"
    /\ treeTests # <<>>
    /\ sel \in treeTests[1] \cup {NoSelection}
    /\ event' = "none"
    /\ rendered' = <<>>
    /\ IF sel # NoSelection /\ sel[1] = "label"
       THEN /\ setupScene
            /\ test' = sel[3]
            /\ pc' = "treeInit"
       ELSE /\ dropped' = <<>>
            /\ UNCHANGED <<pc, test, finVars, sceneVars>>
    /\ UNCHANGED <<envVars, applog, currentDemo, guiVars, fpsVars, appSubs, now,
                   exitCode, initialized>>

\* buildGui, lines 488-489: test.Initialize(app); app.currentDemo = test
TreeInitialize ==
    /\ pc = "treeInit"
    /\ \E uses \in UseChoices(test), k \in FinChoices(test) :
           DemoInitialize(test, uses, k)
    /\ currentDemo' = test
    /\ pc' = "loop"
    /\ event' = "none"
    /\ rendered' = <<>>
    /\ dropped' = <<>>
    /\ UNCHANGED <<envVars, applog, test, panel3D, control, treeTests, fpsVars,
                   appSubs, now, exitCode>>

RenderAllDemos(cur) ==
    IF cur # Nil THEN <<"AudioPosition", "GuiLayoutDock", "AnyDemo">> ELSE <<>>

\* Create, lines 151-155: the before-render handler
BeforeRenderHandler(cur) == IF cur # Nil THEN <<cur>> ELSE <<>>

\* the Render calls of the handlers subscribed to ev, in subscription order
RECURSIVE Dispatch(_, _, _)
Dispatch(subs, ev, cur) ==
    IF subs = <<>> THEN <<>>
    ELSE (IF Head(subs) = ev THEN BeforeRenderHandler(cur) ELSE <<>>)
             \o Dispatch(Tail(subs), ev, cur)

\* a frame is about to be rendered: OnBeforeRender is dispatched; Render of the
\* demos of the source registers nothing, that of another demo may add a finalizer
BeforeRender ==
    /\ pc = "loop"
    /\ event' = "OnBeforeRender"
    /\ dropped' = <<>>
    /\ rendered' = Dispatch(appSubs, "OnBeforeRender", currentDemo)
    /\ \E k \in {j \in FinChoices(currentDemo) : j <= Len(rendered')} :
           /\ finalizers' = AddFinalizers(finalizers, nextFin, k)
           /\ nextFin' = nextFin + k
    /\ UNCHANGED <<pc, envVars, applog, currentDemo, test, invoked, sceneVars, guiVars,
                   fpsVars, appSubs, now, exitCode, initialized>>

\* fmt.Sprintf("%3.1f / %3.1f", fps, pfps): the text depends on the measurement
FPSText(elapsed) == <<"fps", elapsed>>

FPSAlways(t) == TRUE

\* FrameRater.FPS(t): whether the interval t has elapsed since the last update
FPSElapsed(t) == now - lastUpdate >= t

UpdateFPSAnyway == TRUE

\* updateFPS, lines 214-216: whether the FPS is shown at all
ShowFPS == ~oHideFPS

FPSInLabel == FALSE

\* updateFPS, line 226: whether the window title shows the FPS, not the label
FPSInTitle == oNogui

\* updateFPS; SetText on app.labelFPS when there is no label (line 229) is a
\* nil pointer dereference, which ends the process
updateFPS ==
    IF ShowFPS /\ FPSElapsed(oUpdateFPS)
    THEN /\ lastUpdate' = now
         /\ IF FPSInTitle
            THEN /\ winTitle' = FPSText(now - lastUpdate)
                 /\ lastWrite' = now
                 /\ UNCHANGED <<labelFPS, pc>>
            ELSE IF labelFPS = <<>>
            THEN /\ pc' = "panic"
                 /\ UNCHANGED <<labelFPS, winTitle, lastWrite>>
            ELSE /\ labelFPS' = FPSText(now - lastUpdate)
                 /\ lastWrite' = now
                 /\ UNCHANGED <<winTitle, pc>>
    ELSE UNCHANGED <<fpsVars, pc>>

\* a frame was rendered: OnAfterRender is dispatched (lines 158-174)
AfterRender ==
    /\ pc = "loop"
    /\ \E k \in 1..Len(appSubs) : appSubs[k] = "OnAfterRender"
    /\ updateFPS
    /\ event' = "OnAfterRender"
    /\ rendered' = <<>>
    /\ dropped' = <<>>
    /\ UNCHANGED <<envVars, applog, currentDemo, test, finVars, sceneVars, guiVars,
                   appSubs, now, exitCode, initialized>>

\* time passes
Tick ==
    /\ pc = "loop"
    /\ now < MaxTime
    /\ now' = now + 1
    /\ event' = "none"
    /\ rendered' = <<>>
    /\ dropped' = <<>>
    /\ UNCHANGED <<pc, envVars, applog, currentDemo, test, finVars, sceneVars, guiVars,
                   fpsVars, appSubs, exitCode, initialized>>

\* setupScene, lines 333-343: the "Perspective camera" check box changes
CameraChange ==
    /\ pc = "loop"
    /\ <<"app", "Perspective camera">> \in controlItems
    /\ camera' = IF camera = "persp" THEN "ortho" ELSE "persp"
    /\ winSubs' = SelectSeq(winSubs, LAMBDA x : x # <<"app", "orbit">>)
                      \o <<<<"app", "orbit">>>>
    /\ event' = "none"
    /\ rendered' = <<>>
    /\ dropped' = <<>>
    /\ UNCHANGED <<pc, envVars, applog, currentDemo, test, finVars, panelSubs, children,
                   controlItems, guiVars, fpsVars, appSubs, now, exitCode, initialized>>

(***************************************************************************)
(* Initial values                                                          *)
(***************************************************************************)
\* demos.Map once the init functions of the demo packages have run
RegisteredDemos ==
    Register(Register(Register(EmptyMap,
        <<"audio", ".", "position">>, "AudioPosition"),
        <<"gui", ".", "layout_dock">>, "GuiLayoutDock"),
        <<"other", ".", "any">>, "AnyDemo")

RegDefault ==
    /\ demoMap = RegisteredDemos
    /\ regLog = <<>>

LogDefault ==
    /\ oLogs = <<>>
    /\ li = 0
    /\ levels = [p \in LoggerPaths |-> <<"INFO">>]
    /\ applog = <<>>

DirDefault ==
    /\ cwd = <<"/w">>
    /\ cwdOk = TRUE
    /\ execPath = <<"/g", "bin", "g3nd">>
    /\ goPathEnv = <<>>
    /\ fs = {<<"/w", "data">>}
    /\ statted = <<>>
    /\ dirData = <<>>

\* the application before buildGui, with the default flags
AppDefaultState ==
    /\ currentDemo = Nil
    /\ test = Nil
    /\ finalizers = <<>>
    /\ nextFin = 1
    /\ invoked = <<>>
    /\ winSubs = <<<<"gui", "root">>, <<"app", "orbit">>>>
    /\ panelSubs = [p \in Panels |-> {}]
    /\ children = [n \in Nodes |-> {}]
    /\ camera = "persp"
    /\ panel3D = Nil
    /\ control = FALSE
    /\ controlItems = {}
    /\ layout = [p \in Panels |-> Nil]
    /\ treeTests = <<>>
    /\ labelFPS = <<>>
    /\ winTitle = <<"G3N Demo">>
    /\ appSubs = <<>>
    /\ now = 0
    /\ lastUpdate = 0
    /\ lastWrite = -1
    /\ event = "none"
    /\ rendered = <<>>
    /\ exitCode = -1
    /\ dropped = <<>>
    /\ initialized = {}

AppDefault ==
    /\ oNogui = FALSE
    /\ oHideFPS = FALSE
    /\ oUpdateFPS = 0
    /\ args = <<>>
    /\ AppDefaultState

\* process start: the init functions of the demo packages register their demos
InitReg ==
    /\ pc = "init"
    /\ demoMap = EmptyMap
    /\ regLog = <<>>
    /\ LogDefault
    /\ DirDefault
    /\ AppDefault

NextReg == \E name \in DemoNames, demo \in DemoObjs : RegisterDemo(name, demo)

SpecReg == InitReg /\ [][NextReg]_vars

\* Create at line 89, for every -logs value of at most MaxLogsLen tokens
InitLogs ==
    /\ pc = "logs"
    /\ RegDefault
    /\ oLogs \in SeqsUpTo(LogTokens, MaxLogsLen)
    /\ li = 0
    /\ levels = [p \in LoggerPaths |-> <<"INFO">>]
    /\ applog = <<>>
    /\ DirDefault
    /\ AppDefault

NextLogs == ApplyLogEntry \/ LogsDone

SpecLogs == InitLogs /\ [][NextLogs]_vars

\* the places a data directory can be at
DataPlaces ==
    {<<"/w", "data">>, <<"/g", "bin", "data">>, <<"/h", "bin", "data">>}
        \cup {WorkspaceData(j, <<"data">>) : j \in {<<"/w">>, <<"/g">>, <<"/h">>}}

\* Create at line 114, for every environment
InitDir ==
    /\ pc = "dirdata"
    /\ RegDefault
    /\ LogDefault
    /\ cwd = <<"/w">>
    /\ cwdOk \in BOOLEAN
    /\ execPath \in {<<>>, <<"/g", "bin", "g3nd">>, <<"/h", "bin", "g3nd">>}
    /\ goPathEnv \in SeqsUpTo({"/g", "/h", ":"}, MaxEnvLen)
    /\ fs \in SUBSET DataPlaces
    /\ statted = <<>>
    /\ dirData = <<>>
    /\ AppDefault

NextDir == CheckDirData

SpecDir == InitDir /\ [][NextDir]_vars

\* Create at line 124: the log levels are set and the data directory was found
\* in the current directory; for every value of the flags and every positional
\* argument
Init ==
    /\ pc = "build"
    /\ RegDefault
    /\ oLogs = <<>>
    /\ li = 0
    /\ levels = [p \in LoggerPaths |-> <<"INFO">>]
    /\ applog = <<<<0, "Info", "Using data directory", <<"/w", "data">>>>>>
    /\ cwd = <<"/w">>
    /\ cwdOk = TRUE
    /\ execPath = <<"/g", "bin", "g3nd">>
    /\ goPathEnv = <<>>
    /\ fs = {<<"/w", "data">>}
    /\ statted = <<<<"data">>>>
    /\ dirData = <<"/w", "data">>
    /\ oNogui \in BOOLEAN
    /\ oHideFPS \in BOOLEAN
    /\ oUpdateFPS \in UpdateFPSValues
    /\ args \in {<<>>} \cup {<<n>> : n \in DemoNames \cup {<<"nosuch">>}}
    /\ AppDefaultState

Next ==
    \/ BuildGui
    \/ CreateSetupScene
    \/ CommandLineDemo
    \/ CommandLineInitialize
    \/ InitializeFatal
    \/ SubscribeRender
    \/ \E sel \in TreeEntries(demoMap) \cup {NoSelection} : TreeChange(sel)
    \/ TreeInitialize
    \/ BeforeRender
    \/ AfterRender
    \/ Tick
    \/ CameraChange

Spec == Init /\ [][Next]_vars

(***************************************************************************)
(* Properties of the registry (checked under SpecReg)                      *)
(***************************************************************************)
\* the demo of the last registration made under name, Nil when there is none
LastRegistered(name) ==
    LET idx == {k \in 1..Len(regLog) : regLog[k][1] = name}
    IN  IF idx = {} THEN Nil
        ELSE regLog[CHOOSE k \in idx : \A h \in idx : h <= k][2]

\* C8: after any sequence of registrations, looking a name up yields the demo
\* of the last registration made under that name (so an earlier demo under the
\* same name is no longer reachable by it), and a name nothing was registered
\* under is not a key; registrations under other names are left as they were.
C8_LastRegistrationWins ==
    \A name \in DemoNames : demoMap[name] = LastRegistered(name)

\* a name was registered twice, with two different demos
C8_Witness ==
    \E i, j \in 1..Len(regLog) :
        /\ i < j
        /\ regLog[i][1] = regLog[j][1]
        /\ regLog[i][2] # regLog[j][2]
        /\ \A k \in (j + 1)..Len(regLog) : regLog[k][1] # regLog[j][1]
        /\ \E k \in 1..Len(regLog) : regLog[k][1] # regLog[j][1]

(***************************************************************************)
(* Properties of checkDirData (checked under SpecDir)                      *)
(***************************************************************************)
DataName == <<"data">>

\* the three locations: current directory, executable's directory, and the
\* fixed path under the parent of the executable's directory
ThreeLocations ==
    <<DataName, Dir(execPath) \o DataName,
      Dir(Dir(execPath)) \o <<"src", "github.com", "g3n", "g3nd">> \o DataName>>

\* the fixed path under each entry of GOPATH, in the order of the entries
GoPathLocations ==
    LET entries == Split(goPathEnv, ":")
    IN  [k \in 1..Len(entries) |->
            entries[k] \o <<"src", "github.com", "g3n", "g3nd">> \o DataName]

\* the index of the first location of locs that exists, 0 when none does
FirstExisting(locs) ==
    LET idx == {k \in 1..Len(locs) : Exists(locs[k])}
    IN  IF idx = {} THEN 0 ELSE CHOOSE k \in idx : \A h \in idx : k <= h

\* C9 as stated (for an environment in which the executable's path and the
\* current directory can be determined): the three locations are tried in order
\* and the first that exists is returned; when none of the three exists the
\* process aborts with a fatal log entry (no other location being tried).
C9_OnlyThreeLocations ==
    (pc # "dirdata" /\ execPath # <<>> /\ cwdOk) =>
        LET k == FirstExisting(ThreeLocations)
        IN  /\ k = 0 => pc = "fatal"
            /\ k # 0 => pc = "build" /\ dirData = Resolve(ThreeLocations[k])

\* C9 as amended: after the three locations the fixed path under each entry of
\* GOPATH is tried, in order, and the first location of the whole list that
\* exists is returned; the process aborts with a fatal log entry only when no
\* location of the whole list exists.  The probes stop at the first hit.  When
\* the executable's path cannot be determined after the current directory
\* failed, or the current directory's hit cannot be made absolute, the process
\* panics.
C9_SearchOrder ==
    pc # "dirdata" =>
        LET locs == IF execPath = <<>> THEN <<DataName>>
                    ELSE ThreeLocations \o GoPathLocations
            k == FirstExisting(locs)
        IN  /\ statted = SubSeq(locs, 1, IF k = 0 THEN Len(locs) ELSE k)
            /\ k = 1 => IF cwdOk THEN pc = "build" /\ dirData = cwd \o DataName
                        ELSE pc = "panic"
            /\ k > 1 => pc = "build" /\ dirData = locs[k]
            /\ (k = 0 /\ execPath = <<>>) => pc = "panic"
            /\ (k = 0 /\ execPath # <<>>) =>
                   /\ pc = "fatal"
                   /\ applog = <<<<0, "Fatal", "Data directory NOT FOUND">>>>

\* the data directory was found under the second entry of GOPATH, after the
\* three locations and the first entry failed
C9_Witness ==
    /\ pc = "build"
    /\ Len(statted) = 5
    /\ dirData = statted[5]
    /\ dirData \notin {Resolve(ThreeLocations[k]) : k \in 1..3}

(***************************************************************************)
(* Properties of the -logs loop (checked under SpecLogs)                   *)
(***************************************************************************)
\* entry k of -logs is package:level with a package that has a logger and a
\* level name the logger accepts
WellFormed(k) ==
    LET parts == Split(LogsList[k], ":")
    IN  /\ Len(parts) = 2
        /\ <<"G3N/">> \o ToUpper(parts[1]) \in LoggerPaths
        /\ ToUpper(parts[2]) \in LevelNames

Messages(k, kind) ==
    {m \in 1..Len(applog) : applog[m][1] = k /\ applog[m][2] = kind}

\* C10: of the entries of -logs handled so far, each one that is malformed,
\* names a package with no logger or names an invalid level is logged as an
\* error and is not reported as applied, each well-formed one is reported as
\* applied and sets its logger's level, no other entry changes a level, and
\* after the last entry startup goes on to the data-directory check.
C10_BadEntriesSkipped ==
    (pc \in {"logs", "dirdata"} /\ oLogs # <<>>) =>
        /\ \A k \in 1..li :
              IF WellFormed(k)
              THEN Cardinality(Messages(k, "Info")) = 1 /\ Messages(k, "Error") = {}
              ELSE Cardinality(Messages(k, "Error")) = 1 /\ Messages(k, "Info") = {}
        /\ \A p \in LoggerPaths :
              LET idx == {k \in 1..li : WellFormed(k)
                             /\ <<"G3N/">> \o ToUpper(Split(LogsList[k], ":")[1]) = p}
              IN  levels[p] = IF idx = {} THEN <<"INFO">>
                              ELSE ToUpper(Split(LogsList[
                                       CHOOSE k \in idx : \A h \in idx : h <= k], ":")[2])
        /\ pc = "dirdata" => li = Len(LogsList)

(***************************************************************************)
(* Properties of the application shell (checked under Spec)                *)
(***************************************************************************)
\* the positions at which Initialize of the selected demo is about to start
AtInitialize == pc \in {"cmdInit", "treeInit"}

\* the name on the command line is a key of the demo map / is no key of it
KnownName == Len(args) > 0 /\ args[1] \in DOMAIN demoMap /\ demoMap[args[1]] # Nil
UnknownName == Len(args) > 0 /\ ~KnownName

DemoOwned(S) == {x \in S : x[1] \in DemoObjs}

SeqRange(q) == {q[k] : k \in 1..Len(q)}

\* C1: when Initialize of a newly selected demo is about to start, every
\* finalizer registered so far has been invoked; and once a selection has
\* completed (the command-line one or one made in the tree), the current demo
\* is a demo and it is the one that selection picked.
C1_SelectionSwitchesDemo ==
    /\ AtInitialize => \A id \in 1..(nextFin - 1) : id \in SeqRange(invoked)
    /\ (pc \in {"subscribe", "loop"} /\ test # Nil) =>
           currentDemo = test /\ currentDemo \in DemoObjs

\* a demo that registered two finalizers is still current, a demo was selected
\* in the tree, and its Initialize is about to start
C1_Witness ==
    /\ pc = "treeInit"
    /\ currentDemo = "AnyDemo"
    /\ test = "AudioPosition"
    /\ Len(invoked) >= 2

\* C2: when Initialize of a demo selected in the tree is about to start, the
\* window and the demo GUI panel hold no subscription of a demo, the scene
\* root, the demo GUI panel and every camera that is in the scene hold no
\* child of a demo, and the control folder holds no control of a demo.
C2_NothingLeftOfPreviousDemo ==
    pc = "treeInit" =>
        /\ DemoOwned(SeqRange(winSubs)) = {}
        /\ DemoOwned(panelSubs[GuiPanel]) = {}
        /\ DemoOwned(children["scene"]) = {}
        /\ DemoOwned(children[GuiPanel]) = {}
        /\ \A c \in {"persp", "ortho"} :
               <<"app", c>> \in children["scene"] => DemoOwned(children[c]) = {}
        /\ DemoOwned(controlItems) = {}

\* the dock layout demo, which added its panels to the demo GUI panel and set
\* its layout, is current and another demo was selected in the tree
C2_Witness ==
    /\ pc = "treeInit"
    /\ currentDemo = "GuiLayoutDock"
    /\ layout[GuiPanel] = "GuiLayoutDock"
    /\ test = "AudioPosition"

\* C3: the finalizers invoked so far followed by the registered ones are the
\* finalizers in the order of their registration, each once: a reset invokes
\* the registered finalizers in registration order and none of them is ever
\* invoked again; and right after a reset the list is empty.
C3_FinalizersOnceInOrder ==
    /\ invoked \o finalizers = [i \in 1..(nextFin - 1) |-> i]
    /\ pc \in {"cmdline", "cmdInit", "treeInit"} => finalizers = <<>>

\* a reset has just invoked the third finalizer, after earlier resets
C3_Witness ==
    /\ pc = "treeInit"
    /\ Len(invoked) = 3
    /\ currentDemo = "AnyDemo"

\* C4: with a name on the command line that is no key of the demo map, the
\* process never gets past the command-line selection other than by exiting
\* with code 2 after printing the usage; no Initialize starts, no demo is
\* current and nothing is subscribed to the render events.  With a name that
\* is a key, the demo under that key is the one that is initialized and current.
C4_CommandLineName ==
    /\ UnknownName =>
           /\ pc \in {"build", "setup", "cmdline", "exit"}
           /\ currentDemo = Nil /\ test = Nil
           /\ appSubs = <<>>
           /\ pc = "exit" =>
                  /\ exitCode = 2
                  /\ <<0, "Stderr", "usage">> \in SeqRange(applog)
    /\ exitCode # -1 => UnknownName
    /\ (KnownName /\ pc \in {"cmdInit", "subscribe"}) =>
           /\ currentDemo = demoMap[args[1]]
           /\ test = demoMap[args[1]]
    /\ (KnownName /\ pc = "subscribe") =>
           /\ DemoOwned(children["scene"] \cup children[GuiPanel])
                  \subseteq {x \in DemoOwned(children["scene"] \cup children[GuiPanel]) :
                                x[1] = demoMap[args[1]]}
           /\ demoMap[args[1]] = "AudioPosition" =>
                  <<"AudioPosition", "ps1">> \in children["scene"]
           /\ demoMap[args[1]] = "GuiLayoutDock" =>
                  <<"GuiLayoutDock", "top1">> \in children[GuiPanel]

\* the process has exited with code 2 because of the name on the command line
C4_Witness ==
    /\ pc = "exit"
    /\ exitCode = 2
    /\ args = <<<<"nosuch">>>>

\* what shows the FPS: the window title under -nogui, the header label otherwise
Display == IF oNogui THEN winTitle ELSE labelFPS

\* C5: with -hidefps nothing is ever written to the FPS label or the window
\* title: no label exists and the title is the one the window was created with.
C5_HiddenFPSNeverWritten ==
    oHideFPS => /\ labelFPS = <<>>
                /\ winTitle = <<"G3N Demo">>
                /\ lastWrite = -1

\* with -hidefps, an after-render event was just handled at a time at which
\* the update interval had elapsed
C5_Witness ==
    /\ oHideFPS
    /\ event = "OnAfterRender"
    /\ oUpdateFPS > 0
    /\ now - lastUpdate >= oUpdateFPS

\* C6: a step writes the FPS text only if it handles an after-render event at
\* a time at which the frame rater's interval of -updatefps milliseconds has
\* elapsed, and then at least that many milliseconds have passed since the
\* previous write.
C6_FPSUpdateInterval ==
    [][(pc = "loop" /\ (Display' # Display \/ lastWrite' # lastWrite)) =>
           /\ event' = "OnAfterRender"
           /\ ~oHideFPS
           /\ now - lastUpdate >= oUpdateFPS
           /\ lastWrite # -1 => now' - lastWrite >= oUpdateFPS]_vars

\* the FPS text was written a second time, one interval after the first write
C6_Witness ==
    /\ oUpdateFPS > 0
    /\ lastWrite >= 2 * oUpdateFPS
    /\ Display = FPSText(oUpdateFPS)

\* C7: a before-render event calls Render once on the current demo and on no
\* other demo, and calls no Render when no demo is current; no other step
\* calls Render.
C7_RenderOnCurrentDemo ==
    /\ event = "OnBeforeRender" =>
           rendered = IF currentDemo # Nil THEN <<currentDemo>> ELSE <<>>
    /\ event # "OnBeforeRender" => rendered = <<>>

\* a before-render event was handled after the demo named on the command
\* line was replaced by another one in the tree
C7_Witness ==
    /\ event = "OnBeforeRender"
    /\ KnownName
    /\ currentDemo # demoMap[args[1]]
    /\ rendered = <<currentDemo>>

\* the position right after a reset: setupScene has returned and Initialize of
\* the selected demo, if there is one, has not started
AfterReset == pc \in {"cmdline", "cmdInit", "treeInit"}

\* C11: right after any reset, whatever was subscribed to the window before
\* it, the window's subscribers are, in subscription order, the default key
\* handler, the default resize handler, the GUI root and the orbit control,
\* each once, and nothing else: the GUI root comes before the orbit control
\* and no subscription from before the reset is left.
C11_WindowSubscribersAfterReset ==
    AfterReset =>
        /\ Len(winSubs) = 4
        /\ winSubs[1] = <<"app", "key">>
        /\ winSubs[2] = <<"app", "resize">>
        /\ winSubs[3] = <<"gui", "root">>
        /\ winSubs[4] = <<"app", "orbit">>

\* a reset made in the tree, after the demo of the command line was replaced
\* by another demo, has just cleared a window that held a subscription of the
\* current demo besides the four default ones
C11_Witness ==
    /\ pc = "treeInit"
    /\ KnownName
    /\ currentDemo # demoMap[args[1]]
    /\ Len(dropped) = 5
    /\ <<currentDemo, "win">> \in SeqRange(dropped)

\* C12: Initialize is called at most once on any demo object, whatever the
\* selections are (no Initialize starts on a demo whose Initialize has already
\* completed), and Render is called only on a demo whose Initialize has
\* completed.
C12_InitializeOnce ==
    /\ [](SeqRange(rendered) \subseteq initialized)
    /\ [][(AtInitialize /\ pc' # pc) => test \notin initialized]_vars

\* the FPS text has been written at least once
FPSWritten == lastWrite # -1

\* t is a text that updateFPS formats
IsFPSText(t) == Len(t) = 2 /\ t[1] = "fps"

\* C13: whatever -nogui and -hidefps are, the header label exists, once
\* buildGui is past, exactly when the GUI was built and -hidefps is off;
\* updateFPS never writes to a label that does not exist (the process never
\* ends by the nil dereference that would be); it writes at all only when
\* -hidefps is off, to the label when -nogui is off and to the window title,
\* and never the label, when -nogui is on.
C13_LabelWrittenOnlyIfCreated ==
    /\ pc # "build" => ((labelFPS # <<>>) <=> (~oNogui /\ ~oHideFPS))
    /\ pc # "panic"
    /\ FPSWritten => ~oHideFPS
    /\ ~oNogui =>
           /\ winTitle = <<"G3N Demo">>
           /\ FPSWritten => IsFPSText(labelFPS)
    /\ oNogui =>
           /\ labelFPS = <<>>
           /\ FPSWritten => IsFPSText(winTitle)

\* without a GUI and with the FPS shown, where no label exists, an
\* after-render event has just written the FPS text
C13_Witness ==
    /\ oNogui
    /\ ~oHideFPS
    /\ labelFPS = <<>>
    /\ event = "OnAfterRender"
    /\ lastWrite = now
    /\ winTitle = FPSText(oUpdateFPS)
    /\ oUpdateFPS > 0

====
